---- MODULE Spec2Model ----
(***************************************************************************)
(* Model of train_model.py: the transfer-learning driver main(), the       *)
(* model factory net(), the loader factory create_data_loaders() and the   *)
(* two loops train() and test().                                           *)
(*                                                                         *)
(* Tensors are abstracted to small integers: a parameter tensor is one     *)
(* value in 0..ValMod-1, a gradient is NoGrad or a value in 1..MaxGrad,    *)
(* the random draws of a transform pipeline are one crop window per batch. *)
(* Loss values are real numbers that no checked property reads; they are   *)
(* not tracked.  Dataset sizes and the batch size keep their real          *)
(* magnitudes because the progress-log condition compares them with 500.   *)
(***************************************************************************)
EXTENDS Integers, Sequences, FiniteSets, TLC

\* ---------------------------------------------------------------- bounds
MaxEpochs     == 2      \* args.epochs ranges over 0..MaxEpochs
MaxTrainUnits == 5      \* train set holds 1..MaxTrainUnits times SizeUnit images
MaxTestUnits  == 1      \* test set holds 1..MaxTestUnits times SizeUnit images
MaxGrad       == 1      \* distinct non-empty gradient values

SizeUnit   == 125                \* granularity of the dataset sizes tried
ValMod     == 3                  \* parameter values live in 0..ValMod-1
BatchSizes == {64, 250}          \* 64 is the default of --batch_size
LogEvery   == 500                \* the modulus of the progress-log test

\* ------------------------------------------------------------- the model
FrozenParams == {"conv", "bn"}       \* parameters of the pretrained resnet50 body
FcParams     == {"fc0", "fc2"}       \* the two nn.Linear layers of the new model.fc
Params   == FrozenParams \cup FcParams
NoGrad   == 0                    \* p.grad is None

Min(a, b) == IF a < b THEN a ELSE b

VARIABLES
  pc,                 \* position of main / train / test
  args,               \* parsed arguments: epochs, batch_size
  data,               \* args.data_dir on disk: exists, #train images, #test images
  model_pth,          \* the writes made to <model_dir>/model.pth, in order
  epoch_no,           \* loop variable of main
  params,             \* value of every model parameter
  requires_grad,      \* requires_grad flag of every model parameter
  grad,               \* .grad of every model parameter
  buffers,            \* BatchNorm running statistics of the backbone
  training,           \* model.training
  optimizer,          \* parameters bound to the AdamW optimizer, steps taken
  hook_mode,          \* mode of the smdebug hook
  train_data_loader,
  test_data_loader,
  running_corrects,
  running_samples,
  consumed,           \* examples already yielded by the loader being iterated
  log,                \* lines emitted through logger.info
  passes,             \* start and end of every train / test call, in order
  testFirst,          \* batches yielded by the first iteration of the test loader
  testSame            \* every later iteration has yielded those batches again

vars == << pc, args, data, model_pth, epoch_no, params, requires_grad, grad,
           buffers, training, optimizer, hook_mode, train_data_loader,
           test_data_loader, running_corrects, running_samples, consumed,
           log, passes, testFirst, testSame >>

modelVars  == << params, requires_grad, grad, buffers, training, optimizer >>
loaderVars == << train_data_loader, test_data_loader >>
statVars   == << running_corrects, running_samples, consumed >>
testHist   == << testFirst, testSame >>

NoLoader == [size |-> 0, batch_size |-> 0, shuffle |-> FALSE, transform |-> << >>]

\* ------------------------------------------------------------------ net()
\* requires_grad after net(): every pretrained parameter is frozen, the
\* freshly built nn.Linear layers of model.fc keep the default True.
NetRequiresGrad == [p \in Params |-> p \in FcParams]

\* -------------------------------------------------- create_data_loaders()
training_transform ==
  << "RandomHorizontalFlip", "Resize", "RandomResizedCrop", "ToTensor" >>

testing_transform == << "Resize", "RandomResizedCrop", "ToTensor" >>

\* Faulty variant: the dataset root is not looked at on construction.
ImageFolderOk_lazy(exists) == TRUE

\* ImageFolder(root=...) raises FileNotFoundError when root is missing.
ImageFolderOk(exists) == exists

TrainLoader(size, bs) ==
  [size |-> size, batch_size |-> bs, shuffle |-> TRUE,
   transform |-> training_transform]

TestLoader(size, bs) ==
  [size |-> size, batch_size |-> bs, shuffle |-> FALSE,
   transform |-> testing_transform]

\* len(loader): DataLoader keeps the last, smaller batch (drop_last=False).
NumBatches(loader) ==
  IF loader.batch_size = 0 THEN 0
  ELSE (loader.size + loader.batch_size - 1) \div loader.batch_size

\* Number of examples in the next batch of an iteration.
BatchLen(loader, done) == Min(loader.batch_size, loader.size - done)

\* RandomResizedCrop draws a scale, an aspect ratio and a position; two
\* crop windows stand for its outcomes.
CropWindows == {0, 1}

IsRandom(t) == t \in {"RandomHorizontalFlip", "RandomResizedCrop"}

\* Outcomes of the random draws a pipeline makes for one batch.
Draws(transform) ==
  IF \E i \in 1..Len(transform) : IsRandom(transform[i])
  THEN CropWindows ELSE {0}

\* -------------------------------------------------------- one train batch
\* pred.eq(lab).sum(): between 0 and len(inp) predictions are right.
Corrects(n) == {0, n \div 2, n}

\* Faulty variant: counts batch_size instead of len(inp).
CountSamples_batch_size(running, n, bs) == running + bs

\* running_samples += len(inp)
CountSamples(running, n, bs) == running + n

\* optimizer.zero_grad(); loss.backward(): only parameters that require
\* grad receive one.
Backward(rg, g) == [p \in Params |-> IF rg[p] THEN g ELSE NoGrad]

\* optimizer.step() visits the parameters it was built with and skips
\* those whose grad is None.
StepUpdates(opt, gr) == {p \in opt.params : gr[p] # NoGrad}

\* Faulty variant: the step moves every model parameter.
Step_all(ps, opt, gr) ==
  [p \in Params |-> (ps[p] + (IF gr[p] = NoGrad THEN 1 ELSE gr[p])) % ValMod]

\* optimizer.step(): the visited parameters move, every other one is kept.
Step(ps, opt, gr) ==
  [p \in Params |-> IF p \in StepUpdates(opt, gr)
                    THEN (ps[p] + gr[p]) % ValMod ELSE ps[p]]

\* The forward pass of a BatchNorm layer refreshes its running statistics
\* only while the module is in training mode.
Forward(bufs, mode) == IF mode THEN (bufs + 1) % ValMod ELSE bufs

\* if running_samples % 500 == 0
ProgressDue(samples) == samples % LogEvery = 0

\* --------------------------------------------------------------- main()
\* Faulty variant: range(1, args.epochs).
EpochRange_short(n) == 1..(n - 1)

\* range(1, args.epochs + 1)
EpochRange(n) == 1..n

Init ==
  /\ pc = "main"
  /\ args \in [epochs : 0..MaxEpochs, batch_size : BatchSizes]
  /\ data \in {[exists |-> FALSE, train |-> 0, test |-> 0]}
       \cup {[exists |-> TRUE, train |-> a * SizeUnit, test |-> b * SizeUnit] :
               a \in 1..MaxTrainUnits, b \in 1..MaxTestUnits}
  /\ model_pth = << >>
  /\ epoch_no = 0
  /\ params = [p \in Params |-> 0]
  /\ requires_grad = [p \in Params |-> TRUE]
  /\ grad = [p \in Params |-> NoGrad]
  /\ buffers = 0
  /\ training = TRUE
  /\ optimizer = [params |-> {}, steps |-> 0]
  /\ hook_mode = "GLOBAL"
  /\ train_data_loader = NoLoader
  /\ test_data_loader = NoLoader
  /\ running_corrects = 0
  /\ running_samples = 0
  /\ consumed = 0
  /\ log = << >>
  /\ passes = << >>
  /\ testFirst = << >>
  /\ testSame = TRUE

\* main, up to the hook registration: header lines, net(), hook.
BuildModel ==
  /\ pc = "main"
  /\ log' = log \o << <<"device", 0>>, <<"hyperparameters", 0>>,
                      <<"data_dir", 0>>, <<"model_dir", 0>>, <<"output_dir", 0>> >>
  /\ requires_grad' = NetRequiresGrad
  /\ pc' = "loaders"
  /\ UNCHANGED << args, data, model_pth, epoch_no, params, grad, buffers,
                  training, optimizer, hook_mode, loaderVars, statVars,
                  passes, testHist >>

\* create_data_loaders(args.data_dir, args.batch_size)
CreateDataLoaders ==
  /\ pc = "loaders"
  /\ IF ImageFolderOk(data.exists)
     THEN /\ train_data_loader' = TrainLoader(data.train, args.batch_size)
          /\ test_data_loader' = TestLoader(data.test, args.batch_size)
          /\ pc' = "optimizer"
     ELSE /\ pc' = "aborted"
          /\ UNCHANGED loaderVars
  /\ UNCHANGED << args, data, model_pth, epoch_no, modelVars, hook_mode,
                  statVars, log, passes, testHist >>

\* loss criterion, hook.register_loss, AdamW over model.fc.parameters()
BuildOptimizer ==
  /\ pc = "optimizer"
  /\ optimizer' = [params |-> FcParams, steps |-> 0]
  /\ pc' = "loop"
  /\ UNCHANGED << args, data, model_pth, epoch_no, params, requires_grad,
                  grad, buffers, training, hook_mode, loaderVars, statVars,
                  log, passes, testHist >>

\* The for statement takes the next epoch number and main calls train().
NextEpoch ==
  /\ pc = "loop"
  /\ epoch_no + 1 \in EpochRange(args.epochs)
  /\ epoch_no' = epoch_no + 1
  /\ log' = Append(log, <<"train_phase", epoch_no + 1>>)
  /\ pc' = "train_call"
  /\ UNCHANGED << args, data, model_pth, modelVars, hook_mode, loaderVars,
                  statVars, passes, testHist >>

\* train(): entry, up to the for statement.
\* Faulty variant: train() without model.train().
TrainBegin_keepMode ==
  /\ pc = "train_call"
  /\ log' = Append(log, <<"train_begin", epoch_no>>)
  /\ hook_mode' = "TRAIN"
  /\ running_corrects' = 0
  /\ running_samples' = 0
  /\ consumed' = 0
  /\ passes' = Append(passes, <<"train", "start", epoch_no, 0>>)
  /\ pc' = "train"
  /\ UNCHANGED << args, data, model_pth, epoch_no, params, requires_grad,
                  grad, buffers, training, optimizer, loaderVars, testHist >>

TrainBegin ==
  /\ pc = "train_call"
  /\ log' = Append(log, <<"train_begin", epoch_no>>)
  /\ training' = TRUE
  /\ hook_mode' = "TRAIN"
  /\ running_corrects' = 0
  /\ running_samples' = 0
  /\ consumed' = 0
  /\ passes' = Append(passes, <<"train", "start", epoch_no, 0>>)
  /\ pc' = "train"
  /\ UNCHANGED << args, data, model_pth, epoch_no, params, requires_grad,
                  grad, buffers, optimizer, loaderVars, testHist >>

\* train(): one iteration of the for statement.
TrainBatch ==
  /\ pc = "train"
  /\ consumed < train_data_loader.size
  /\ LET n == BatchLen(train_data_loader, consumed) IN
     \E c \in Corrects(n), g \in 1..MaxGrad :
       LET gr == Backward(requires_grad, g)
           rs == CountSamples(running_samples, n, train_data_loader.batch_size)
       IN /\ buffers' = Forward(buffers, training)
          /\ running_corrects' = running_corrects + c
          /\ running_samples' = rs
          /\ grad' = gr
          /\ params' = Step(params, optimizer, gr)
          /\ optimizer' = [optimizer EXCEPT !.steps = @ + 1]
          /\ log' = IF ProgressDue(rs)
                    THEN Append(log, <<"progress", epoch_no>>) ELSE log
          /\ consumed' = consumed + n
  /\ UNCHANGED << pc, args, data, model_pth, epoch_no, requires_grad,
                  training, hook_mode, loaderVars, passes, testHist >>

\* train(): the loader is exhausted; summary line and return.
TrainEnd ==
  /\ pc = "train"
  /\ consumed = train_data_loader.size
  /\ log' = Append(Append(log, <<"train_summary", epoch_no>>),
                   <<"test_phase", epoch_no>>)
  /\ passes' = Append(passes, <<"train", "end", epoch_no, consumed>>)
  /\ pc' = "test_call"
  /\ UNCHANGED << args, data, model_pth, epoch_no, modelVars, hook_mode,
                  loaderVars, statVars, testHist >>

\* Faulty variant: test() without running_corrects = 0.
TestBegin_noReset ==
  /\ pc = "test_call"
  /\ log' = Append(log, <<"test_begin", epoch_no>>)
  /\ training' = FALSE
  /\ hook_mode' = "EVAL"
  /\ consumed' = 0
  /\ passes' = Append(passes, <<"test", "start", epoch_no, 0>>)
  /\ pc' = "test"
  /\ UNCHANGED << args, data, model_pth, epoch_no, params, requires_grad,
                  grad, buffers, optimizer, loaderVars, running_samples,
                  running_corrects, testHist >>

\* test(): entry, up to the for statement.
TestBegin ==
  /\ pc = "test_call"
  /\ log' = Append(log, <<"test_begin", epoch_no>>)
  /\ training' = FALSE
  /\ hook_mode' = "EVAL"
  /\ running_corrects' = 0
  /\ consumed' = 0
  /\ passes' = Append(passes, <<"test", "start", epoch_no, 0>>)
  /\ pc' = "test"
  /\ UNCHANGED << args, data, model_pth, epoch_no, params, requires_grad,
                  grad, buffers, optimizer, loaderVars, running_samples,
                  testHist >>

\* The test loader hands out batch b: the first iteration is recorded, a
\* later one is compared with it position by position.
Yield(b) ==
  IF epoch_no = 1
  THEN /\ testFirst' = Append(testFirst, b)
       /\ UNCHANGED testSame
  ELSE /\ testSame' =
            (testSame /\ b = testFirst[(consumed \div test_data_loader.batch_size) + 1])
       /\ UNCHANGED testFirst

\* Faulty variant: test() with the backward pass and optimizer step of train().
TestBatch_withStep ==
  /\ pc = "test"
  /\ consumed < test_data_loader.size
  /\ LET n == BatchLen(test_data_loader, consumed) IN
     \E c \in Corrects(n), r \in Draws(test_data_loader.transform) :
       LET gr == Backward(requires_grad, 1) IN
       /\ buffers' = Forward(buffers, training)
       /\ running_corrects' = running_corrects + c
       /\ grad' = gr
       /\ params' = Step(params, optimizer, gr)
       /\ optimizer' = [optimizer EXCEPT !.steps = @ + 1]
       /\ Yield(<<consumed, n, r>>)
       /\ consumed' = consumed + n
  /\ UNCHANGED << pc, args, data, model_pth, epoch_no, requires_grad,
                  training, hook_mode, loaderVars, running_samples, log,
                  passes >>

\* test(): one iteration of the for statement, under torch.no_grad().
TestBatch ==
  /\ pc = "test"
  /\ consumed < test_data_loader.size
  /\ LET n == BatchLen(test_data_loader, consumed) IN
     \E c \in Corrects(n), r \in Draws(test_data_loader.transform) :
       /\ buffers' = Forward(buffers, training)
       /\ running_corrects' = running_corrects + c
       /\ Yield(<<consumed, n, r>>)
       /\ consumed' = consumed + n
  /\ UNCHANGED << pc, args, data, model_pth, epoch_no, params, requires_grad,
                  grad, training, optimizer, hook_mode, loaderVars,
                  running_samples, log, passes >>

StateDict == [params |-> params, buffers |-> buffers]

\* Faulty variant: the weights are also saved at the end of every epoch.
TestEnd_checkpoint ==
  /\ pc = "test"
  /\ consumed = test_data_loader.size
  /\ log' = Append(log, <<"test_summary", epoch_no>>)
  /\ passes' = Append(passes, <<"test", "end", epoch_no, consumed>>)
  /\ model_pth' = Append(model_pth, StateDict)
  /\ pc' = "loop"
  /\ UNCHANGED << args, data, epoch_no, modelVars, hook_mode,
                  loaderVars, statVars, testHist >>

\* test(): the loader is exhausted; summary line and return.
TestEnd ==
  /\ pc = "test"
  /\ consumed = test_data_loader.size
  /\ log' = Append(log, <<"test_summary", epoch_no>>)
  /\ passes' = Append(passes, <<"test", "end", epoch_no, consumed>>)
  /\ pc' = "loop"
  /\ UNCHANGED << args, data, model_pth, epoch_no, modelVars, hook_mode,
                  loaderVars, statVars, testHist >>

\* The for statement is exhausted: torch.save(model.state_dict(), ...).
SaveModel ==
  /\ pc = "loop"
  /\ epoch_no + 1 \notin EpochRange(args.epochs)
  /\ model_pth' = Append(model_pth, StateDict)
  /\ log' = log \o << <<"save_start", 0>>, <<"save_done", 0>> >>
  /\ pc' = "done"
  /\ UNCHANGED << args, data, epoch_no, modelVars, hook_mode, loaderVars,
                  statVars, passes, testHist >>

\* An exception raised inside a train or test batch is caught nowhere.
FatalError ==
  /\ pc \in {"train", "test"}
  /\ pc' = "aborted"
  /\ UNCHANGED << args, data, model_pth, epoch_no, modelVars, hook_mode,
                  loaderVars, statVars, log, passes, testHist >>

Next ==
  \/ BuildModel
  \/ CreateDataLoaders
  \/ BuildOptimizer
  \/ NextEpoch
  \/ TrainBegin
  \/ TrainBatch
  \/ TrainEnd
  \/ TestBegin
  \/ TestBatch
  \/ TestEnd
  \/ SaveModel
  \/ FatalError

Spec == Init /\ [][Next]_vars

\* ------------------------------------------------------------ properties
\* The start and end events of a complete run over n epochs.
ExpectedPasses(n) ==
  [i \in 1..(4 * n) |->
     LET e == ((i - 1) \div 4) + 1
         k == (i - 1) % 4
     IN CASE k = 0 -> <<"train", "start", e, 0>>
          [] k = 1 -> <<"train", "end", e, data.train>>
          [] k = 2 -> <<"test", "start", e, 0>>
          [] k = 3 -> <<"test", "end", e, data.test>>]

IsPrefix(s, t) ==
  /\ Len(s) <= Len(t)
  /\ \A i \in 1..Len(s) : s[i] = t[i]

EpochLine(l) ==
  l[1] \in {"train_phase", "train_begin", "progress", "train_summary",
            "test_phase", "test_begin", "test_summary"}

ProgressLines(e) ==
  Cardinality({i \in 1..Len(log) : log[i] = <<"progress", e>>})

\* C1: the train and test calls made so far are always an initial part of
\* train(1), test(1), ..., train(N), test(N), each train call ending only
\* after the whole training set was consumed and each test call starting
\* after it; a run that reaches its end has made all 2N calls.
AlternationC1 ==
  /\ IsPrefix(passes, ExpectedPasses(args.epochs))
  /\ pc = "done" => passes = ExpectedPasses(args.epochs)

WitnessC1 ==
  /\ pc = "done"
  /\ args.epochs = 2
  /\ Len(passes) = 8
  /\ optimizer.steps = 2 * NumBatches(train_data_loader)

\* C2: no step taken while train() runs changes a parameter of the
\* pretrained feature extractor; only model.fc parameters move.
TrainFrameC2 ==
  [][(pc \in {"train_call", "train"}) =>
       (\A p \in FrozenParams : params'[p] = params[p])]_vars

WitnessC2 ==
  /\ pc = "train"
  /\ optimizer.steps >= 1
  /\ \A p \in FcParams : params[p] # 0
  /\ \A p \in FrozenParams : params[p] = 0

\* C3: no step taken while test() runs changes a model parameter, sets a
\* gradient or counts as an optimizer step.
TestFrameC3 ==
  [][(pc \in {"test_call", "test"}) =>
       (params' = params /\ grad' = grad /\ optimizer' = optimizer)]_vars

WitnessC3 ==
  /\ pc = "test"
  /\ consumed = test_data_loader.size
  /\ Len(testFirst) >= 2
  /\ optimizer.steps >= 1

\* C4: inside train() running_samples equals the number of examples the
\* loader has yielded in this pass (zero at the start of every pass), and
\* when train() returns it equals the size of the training set.
SampleCountC4 ==
  /\ pc = "train" => running_samples = consumed
  /\ pc = "test_call" => running_samples = data.train

WitnessC4 ==
  /\ pc = "test_call"
  /\ epoch_no = 2
  /\ data.train % args.batch_size # 0
  /\ NumBatches(train_data_loader) >= 2
  /\ running_samples = data.train

\* C5: in every pass of train() and of test() the running correct-count
\* lies between 0 and the size of the dataset the pass runs over, so the
\* accuracy computed at the end of the pass is in [0, 1].
AccuracyBoundedC5 ==
  /\ pc \in {"train", "test_call"} =>
       /\ 0 <= running_corrects
       /\ running_corrects <= train_data_loader.size
  /\ (pc = "test" \/ (pc = "loop" /\ epoch_no >= 1)) =>
       /\ 0 <= running_corrects
       /\ running_corrects <= test_data_loader.size

WitnessC5 ==
  /\ pc = "test"
  /\ epoch_no = 2
  /\ consumed = test_data_loader.size
  /\ running_corrects = test_data_loader.size

\* C6: with a missing data_dir the run never gets past the construction of
\* the loaders: no train or test call starts, no batch is processed, no
\* epoch line is logged and model.pth is not written.
MissingDataC6 ==
  ~data.exists =>
    /\ pc \in {"main", "loaders", "aborted"}
    /\ passes = << >>
    /\ optimizer.steps = 0
    /\ consumed = 0
    /\ \A i \in 1..Len(log) : ~EpochLine(log[i])
    /\ model_pth = << >>

WitnessC6 ==
  /\ ~data.exists
  /\ pc = "aborted"
  /\ args.epochs >= 1
  /\ Len(log) = 5

\* C7: model.pth is written at most once; once written the run is over and
\* every epoch's train and test call has finished; an aborted run has
\* written nothing and a completed run has written it.
SaveOnceC7 ==
  /\ Len(model_pth) <= 1
  /\ model_pth # << >> =>
       /\ pc = "done"
       /\ passes = ExpectedPasses(args.epochs)
  /\ pc = "aborted" => model_pth = << >>
  /\ pc = "done" => Len(model_pth) = 1

WitnessC7 ==
  /\ pc = "done"
  /\ args.epochs = 2
  /\ model_pth = << StateDict >>

\* C8: every batch a second or later iteration of the test loader yields
\* is the batch the first iteration yielded at that position, with the
\* same contents.
TestBatchesDeterministicC8 == testSame

\* C9: inside train() one progress line of the current epoch has been
\* logged for every multiple of 500 the running sample count has reached
\* or passed.
ProgressEvery500C9 ==
  pc = "train" => ProgressLines(epoch_no) >= running_samples \div LogEvery

\* C10: while train() iterates the hook is in TRAIN mode and the model in
\* training mode; while test() iterates the hook is in EVAL mode and the
\* model in evaluation mode.
ModesC10 ==
  /\ pc = "train" => (hook_mode = "TRAIN" /\ training)
  /\ pc = "test" => (hook_mode = "EVAL" /\ ~training)

WitnessC10 ==
  /\ pc = "train"
  /\ epoch_no = 2
  /\ consumed > 0
  /\ training
  /\ hook_mode = "TRAIN"

====
